---- MODULE Spec2Model ----
(***************************************************************************)
(* Value objects (Password, Hash) and the ApplicationError taxonomy of the *)
(* user-account domain, as state machines over the calls a caller makes.   *)
(*                                                                         *)
(* A Rust String is a sequence of Unicode code points (naturals); a        *)
(* &'static str literal of the program is a TLA+ string.                   *)
(***************************************************************************)
EXTENDS Integers, Sequences, FiniteSets, TLC

VARIABLES password, hash, derived, object, call, ret

vars == <<password, hash, derived, object, call, ret>>

(***************************************************************************)
(* Bounds of the input families.                                           *)
(***************************************************************************)
\* a password text is a free prefix of at most MaxCore characters ...
MaxCore == 4
\* ... followed by at most MaxPad repetitions of one padding character
MaxPad == 16

(***************************************************************************)
(* Characters.  The code points the inputs are drawn from:                 *)
(*   97 'a'   65 'A'   49 '1'   33 '!'                                     *)
(*   233 U+00E9 (lowercase letter)  1632 U+0660 (decimal digit)            *)
(*   8364 U+20AC (currency symbol: neither letter nor digit)               *)
(***************************************************************************)
Chars == {97, 65, 49, 33, 233, 1632, 8364}

PadChars == {97, 8364}

\* char::is_ascii
is_ascii(c) == c <= 127

\* char::is_lowercase, on ASCII and on the non-ASCII code points of Chars
is_lowercase(c) == (c >= 97 /\ c <= 122) \/ c = 233

\* char::is_uppercase
is_uppercase(c) == c >= 65 /\ c <= 90

\* char::is_alphabetic
is_alphabetic(c) == is_lowercase(c) \/ is_uppercase(c)

\* char::is_numeric
is_numeric(c) == (c >= 48 /\ c <= 57) \/ c = 1632

(***************************************************************************)
(* Password                                                                *)
(***************************************************************************)
PasswordMinLen == 8
PasswordMaxLen == 18

NoFlags == [has_lower |-> FALSE, has_upper |-> FALSE,
            has_number |-> FALSE, has_special |-> FALSE]

\* the loop body without its is_ascii guard (a faulty variant)
validate_pass_step_no_ascii_guard(f, c) ==
    IF is_alphabetic(c)
    THEN IF is_lowercase(c) THEN [f EXCEPT !.has_lower = TRUE]
         ELSE IF is_uppercase(c) THEN [f EXCEPT !.has_upper = TRUE]
         ELSE f
    ELSE IF is_numeric(c) THEN [f EXCEPT !.has_number = TRUE]
    ELSE [f EXCEPT !.has_special = TRUE]

\* one iteration of the loop of validate_pass
validate_pass_step(f, c) ==
    IF is_ascii(c)
    THEN IF is_alphabetic(c)
         THEN IF is_lowercase(c) THEN [f EXCEPT !.has_lower = TRUE]
              ELSE IF is_uppercase(c) THEN [f EXCEPT !.has_upper = TRUE]
              ELSE f
         ELSE IF is_numeric(c) THEN [f EXCEPT !.has_number = TRUE]
         ELSE [f EXCEPT !.has_special = TRUE]
    ELSE f

RECURSIVE validate_pass_flags(_, _)
\* the flags after the loop has run over passw[1..n]
validate_pass_flags(passw, n) ==
    IF n = 0 THEN NoFlags
    ELSE validate_pass_step(validate_pass_flags(passw, n - 1), passw[n])

\* ValidationError::new(code), with the parameters the derive adds
ValidationError(code, params) == [code |-> code, params |-> params]

\* fn validate_pass(passw: &String) -> Result<(), ValidationError>
validate_pass(passw) ==
    LET f == validate_pass_flags(passw, Len(passw))
    IN  IF ~(f.has_lower /\ f.has_upper /\ f.has_number /\ f.has_special)
        THEN [tag |-> "Err", err |-> ValidationError("Invalid Password", <<>>)]
        ELSE [tag |-> "Ok"]

\* validator::validate_length(value, min, max): String length counts chars
validate_length(value, min, max) == Len(value) >= min /\ Len(value) <= max

\* the three kinds of validator::ValidationErrorsKind
FieldKind(errs) == [kind |-> "Field", errs |-> errs]
StructKind(errs) == [kind |-> "Struct", errs |-> errs]
ListKind(errs) == [kind |-> "List", errs |-> errs]

\* a ValidationErrors is a map from the failing field names to their kind
NoErrors == <<>>

\* Result<(), ValidationErrors> of a derived validate()
ValidationResult(errors) ==
    IF DOMAIN errors = {} THEN [tag |-> "Ok"]
    ELSE [tag |-> "Err", errors |-> errors]

\* the same with both length bounds exclusive (a faulty variant)
Password_value_errors_open_bounds(value) ==
    (IF Len(value) > PasswordMinLen /\ Len(value) < PasswordMaxLen THEN <<>>
     ELSE <<ValidationError("length",
              [min |-> PasswordMinLen, max |-> PasswordMaxLen, value |-> value])>>)
    \o
    (IF validate_pass(value).tag = "Ok" THEN <<>>
     ELSE <<ValidationError("Invalid Password", [value |-> value])>>)

\* the errors #[validate(length(min = 8, max = 18), custom = "validate_pass")]
\* collects on Password.value, in attribute order
Password_value_errors(value) ==
    (IF validate_length(value, PasswordMinLen, PasswordMaxLen) THEN <<>>
     ELSE <<ValidationError("length",
              [min |-> PasswordMinLen, max |-> PasswordMaxLen, value |-> value])>>)
    \o
    (IF validate_pass(value).tag = "Ok" THEN <<>>
     ELSE <<ValidationError("Invalid Password", [value |-> value])>>)

\* <Password as Validate>::validate
Password_validate(value) ==
    LET errs == Password_value_errors(value)
    IN  ValidationResult(IF errs = <<>> THEN NoErrors
                         ELSE [f \in {"value"} |-> FieldKind(errs)])

\* Password::from(value)
Password_from(value) == value

(***************************************************************************)
(* ApplicationError and its constructors                                   *)
(***************************************************************************)
None == [tag |-> "None"]
Some(v) == [tag |-> "Some", val |-> v]

\* struct ApplicationError { status, code, error, description, fields }
ApplicationError(status, code, error, description, fields) ==
    [status |-> status, code |-> code, error |-> error,
     description |-> description, fields |-> fields]

\* faulty variant: a single argument replaces the error tag
application_error_function_swapped_override(status, code, default_error, default_description, args) ==
    IF Len(args) = 0
    THEN ApplicationError(status, code, default_error, default_description, None)
    ELSE IF Len(args) = 1
    THEN ApplicationError(status, code, args[1], default_description, None)
    ELSE ApplicationError(status, code, args[2], args[1], None)

\* faulty variant: fields is Some(empty map)
application_error_function_empty_fields(status, code, default_error, default_description, args) ==
    IF Len(args) = 0
    THEN ApplicationError(status, code, default_error, default_description, Some(<<>>))
    ELSE IF Len(args) = 1
    THEN ApplicationError(status, code, default_error, args[1], Some(<<>>))
    ELSE ApplicationError(status, code, args[2], args[1], Some(<<>>))

\* the macro each row of application_error_function! generates: its three
\* arms are chosen by the number of arguments of the call
application_error_function(status, code, default_error, default_description, args) ==
    IF Len(args) = 0
    THEN ApplicationError(status, code, default_error, default_description, None)
    ELSE IF Len(args) = 1
    THEN ApplicationError(status, code, default_error, args[1], None)
    ELSE ApplicationError(status, code, args[2], args[1], None)

internal_server_error(args) ==
    application_error_function("InternalServerError", 500, "internal_server_error",
        "It's not you. We are experiencing technical difficulties. Please try again later.",
        args)

unauthorized_error(args) ==
    application_error_function("UnauthorizedError", 401, "unauthorized",
        "Sorry, but you need to authenticate to access this resource.", args)

forbidden_error(args) ==
    application_error_function("ForbiddenError", 403, "forbidden",
        "Sorry, but you are not allowed to access this resource.", args)

bad_request_error(args) ==
    application_error_function("BadRequestError", 400, "bad_request",
        "Sorry, but your input is not like we are expected. Please try again.", args)

\* faulty variant: the conventional 404
not_found_error_404(args) ==
    application_error_function("NotFoundError", 404, "not_found",
        "Sorry, but we can't find resource you are looking for.", args)

not_found_error(args) ==
    application_error_function("NotFoundError", 400, "not_found",
        "Sorry, but we can't find resource you are looking for.", args)

too_many_request_error(args) ==
    application_error_function("TooManyRequestError", 429, "too_many_request",
        "Sorry, it seems you are trying too many request. Please relax a little and try again later.",
        args)

(***************************************************************************)
(* Hash.  A crypt(3) string is a sequence of tokens: the scheme magic, the *)
(* salt, a "$" and the digest; the empty string is the empty sequence.     *)
(* The digest of SHA-512 crypt is modelled as the pair <<salt, password>>  *)
(* (an ideal, collision-free digest).                                      *)
(***************************************************************************)
Digest(salt, pass) == <<salt, pass>>

\* pwhash::sha512_crypt::hash_with(param, pass): param must parse as a
\* "$6$" setup (a salt, or a whole hash string whose salt is reused)
sha512_crypt_hash_with(param, pass) ==
    IF Len(param) >= 2 /\ param[1] = "$6$"
    THEN [tag |-> "Ok", val |-> <<"$6$", param[2], "$", Digest(param[2], pass)>>]
    ELSE [tag |-> "Err"]

\* pwhash::sha512_crypt::verify(pass, hash): re-hash with the setup read from
\* hash and compare; a hash that does not parse never verifies
sha512_crypt_verify(pass, h) ==
    LET r == sha512_crypt_hash_with(h, pass)
    IN  r.tag = "Ok" /\ r.val = h

\* impl fmt::Display for Password
Password_to_string(value) == value

\* Hash::new()
Hash_new == <<>>

\* Hash::from(hash)
Hash_from(h) == h

\* faulty variant: a weak password is refused
Hash_from_password_rejects_weak(key, pw) ==
    LET r == sha512_crypt_hash_with(key, Password_to_string(pw))
    IN  IF r.tag = "Ok" /\ Password_validate(pw).tag = "Ok"
        THEN [tag |-> "Ok", hash |-> r.val]
        ELSE [tag |-> "Err", err |-> internal_server_error(<<>>)]

\* Hash::from_password(key, password)
Hash_from_password(key, pw) ==
    LET r == sha512_crypt_hash_with(key, Password_to_string(pw))
    IN  IF r.tag = "Ok"
        THEN [tag |-> "Ok", hash |-> r.val]
        ELSE [tag |-> "Err", err |-> internal_server_error(<<>>)]

\* faulty variant: the empty hash goes to the primitive
Hash_verify_password_no_empty_check(h, pw) ==
    [tag |-> "Ok", val |-> sha512_crypt_verify(Password_to_string(pw), h)]

\* faulty variant: only the shape of the hash is looked at
Hash_verify_password_ignores_password(h, pw) ==
    IF h = <<>>
    THEN [tag |-> "Err", err |-> "Hash is empty"]
    ELSE [tag |-> "Ok", val |-> sha512_crypt_hash_with(h, <<>>).tag = "Ok"]

\* Hash::verify_password(&self, password)
Hash_verify_password(h, pw) ==
    IF h = <<>>
    THEN [tag |-> "Err", err |-> "Hash is empty"]
    ELSE [tag |-> "Ok", val |-> sha512_crypt_verify(Password_to_string(pw), h)]

(***************************************************************************)
(* Email and the validator rules used by the derived validate() methods    *)
(***************************************************************************)
\* [a-z0-9] under (?i), on ASCII
IsAlnum(c) == (c >= 48 /\ c <= 57) \/ (c >= 65 /\ c <= 90) \/ (c >= 97 /\ c <= 122)

\* the class of EMAIL_USER_RE: [a-z0-9.!#$%&'*+/=?^_`{|}~-]
IsEmailUserChar(c) ==
    IsAlnum(c) \/ c \in {46, 33, 35, 36, 37, 38, 39, 42, 43, 47, 61, 63,
                         94, 95, 96, 123, 124, 125, 126, 45}

\* one label of EMAIL_DOMAIN_RE: [a-z0-9](?:[a-z0-9-]{0,61}[a-z0-9])?
IsDomainLabel(l) ==
    /\ Len(l) >= 1 /\ Len(l) <= 63
    /\ IsAlnum(l[1]) /\ IsAlnum(l[Len(l)])
    /\ \A i \in 1..Len(l) : IsAlnum(l[i]) \/ l[i] = 45

\* EMAIL_DOMAIN_RE: one label, then any number of "." label
MatchesEmailDomain(d) ==
    LET cuts == {0, Len(d) + 1} \cup {i \in 1..Len(d) : d[i] = 46}
    IN  \A a \in cuts, b \in cuts :
            (a < b /\ ~\E m \in cuts : a < m /\ m < b) =>
                IsDomainLabel(SubSeq(d, a + 1, b - 1))

\* a decimal octet of a dotted quad: 1 to 3 digits, no leading zero, <= 255
RECURSIVE DecimalValue(_, _)
DecimalValue(t, n) ==
    IF n = 0 THEN 0 ELSE 10 * DecimalValue(t, n - 1) + (t[n] - 48)

IsOctet(t) ==
    /\ Len(t) >= 1 /\ Len(t) <= 3
    /\ \A i \in 1..Len(t) : t[i] >= 48 /\ t[i] <= 57
    /\ Len(t) > 1 => t[1] # 48
    /\ DecimalValue(t, Len(t)) <= 255

\* Ipv4Addr::from_str: four octets separated by "."
IsIpv4(t) ==
    LET cuts == {0, Len(t) + 1} \cup {i \in 1..Len(t) : t[i] = 46}
    IN  /\ Cardinality(cuts) = 5
        /\ \A a \in cuts, b \in cuts :
               (a < b /\ ~\E m \in cuts : a < m /\ m < b) =>
                   IsOctet(SubSeq(t, a + 1, b - 1))

IsHexDigit(c) ==
    (c >= 48 /\ c <= 57) \/ (c >= 65 /\ c <= 70) \/ (c >= 97 /\ c <= 102)

\* Ipv6Addr::from_str, on the compressed forms "::" and "::" hex-group
IsIpv6(t) ==
    /\ Len(t) >= 2 /\ Len(t) <= 6
    /\ t[1] = 58 /\ t[2] = 58
    /\ \A i \in 3..Len(t) : IsHexDigit(t[i])

\* validator::validate_ip
validate_ip(t) == IsIpv4(t) \/ IsIpv6(t)

\* the class of EMAIL_LITERAL_RE: [A-f0-9:\.]
IsLiteralChar(c) == (c >= 65 /\ c <= 102) \/ (c >= 48 /\ c <= 57) \/ c \in {58, 46}

\* EMAIL_LITERAL_RE \[([A-f0-9:\.]+)\]\z found in d, and its group an IP
MatchesEmailLiteral(d) ==
    /\ Len(d) >= 3
    /\ d[Len(d)] = 93
    /\ \E i \in 1..(Len(d) - 2) :
          /\ d[i] = 91
          /\ \A j \in (i + 1)..(Len(d) - 1) : IsLiteralChar(d[j])
          /\ ~\E k \in 1..(i - 1) :
                d[k] = 91 /\ \A j \in (k + 1)..(Len(d) - 1) : IsLiteralChar(d[j])
          /\ validate_ip(SubSeq(d, i + 1, Len(d) - 1))

\* validator's validate_domain_part
validate_domain_part(d) == MatchesEmailDomain(d) \/ MatchesEmailLiteral(d)

\* validator::validate_email, on ASCII texts (no internationalised domain)
validate_email(val) ==
    IF val = <<>> \/ ~\E i \in 1..Len(val) : val[i] = 64
    THEN FALSE
    ELSE LET at == CHOOSE i \in 1..Len(val) :
                       val[i] = 64 /\ \A j \in (i + 1)..Len(val) : val[j] # 64
             user_part == SubSeq(val, 1, at - 1)
             domain_part == SubSeq(val, at + 1, Len(val))
         IN  /\ Len(user_part) <= 64 /\ Len(domain_part) <= 255
             /\ Len(user_part) >= 1
             /\ \A i \in 1..Len(user_part) : IsEmailUserChar(user_part[i])
             /\ validate_domain_part(domain_part)

\* validator::validate_range(value, min, max)
validate_range(value, min, max) == value >= min /\ value <= max

\* the errors of a #[validate(length(min, max))] field
length_errors(value, min, max) ==
    IF validate_length(value, min, max) THEN <<>>
    ELSE <<ValidationError("length", [min |-> min, max |-> max, value |-> value])>>

\* the errors of a #[validate(email)] field
email_errors(value) ==
    IF validate_email(value) THEN <<>>
    ELSE <<ValidationError("email", [value |-> value])>>

\* the errors of a #[validate(range(min, max))] field
range_errors(value, min, max) ==
    IF validate_range(value, min, max) THEN <<>>
    ELSE <<ValidationError("range", [min |-> min, max |-> max, value |-> value])>>

\* ValidationErrors::add for every field of `rules` (field -> its errors)
\* that collected an error
FieldErrors(rules) ==
    [f \in {g \in DOMAIN rules : rules[g] # <<>>} |-> FieldKind(rules[f])]

\* ValidationErrors::merge for every #[validate] field of `nested`
\* (field -> the Result of the nested validate())
StructErrors(nested) ==
    [f \in {g \in DOMAIN nested : nested[g].tag = "Err"} |->
        StructKind(nested[f].errors)]

\* the <<index, errors>> pairs of the elements of a list that fail, in order
RECURSIVE FailedElements(_, _)
FailedElements(results, n) ==
    IF n = 0 THEN <<>>
    ELSE FailedElements(results, n - 1) \o
         (IF results[n].tag = "Err" THEN <<<<n - 1, results[n].errors>>>> ELSE <<>>)

\* faulty variant: the field carries no rule
Email_validate_no_rule(value) == ValidationResult(NoErrors)

\* <Email as Validate>::validate
Email_validate(value) ==
    ValidationResult(FieldErrors([value |-> email_errors(value)]))

\* Email::from(value)
Email_from(value) == [type |-> "Email", value |-> value]

\* <MyInput as Validate>::validate, the struct of the tests of error.rs
MyInput_validate(o) ==
    ValidationResult(FieldErrors(
        [id    |-> length_errors(o.id, 16, 32),
         email |-> email_errors(o.email),
         name  |-> length_errors(o.name, 5, 64),
         age   |-> range_errors(o.age, 17, 64)]))

\* <Registration as Validate>::validate: both fields are #[validate]
Registration_validate(o) ==
    ValidationResult(StructErrors(
        [email    |-> Email_validate(o.email.value),
         password |-> Password_validate(o.password.value)]))

\* validate() of a struct whose field "emails" is a #[validate] Vec<Email>:
\* ValidationErrors::merge_all keeps the failing elements under their index
Recipients_validate(o) ==
    LET results == [i \in 1..Len(o.emails) |-> Email_validate(o.emails[i].value)]
        failed == FailedElements(results, Len(results))
    IN  ValidationResult(IF failed = <<>> THEN NoErrors
                         ELSE [f \in {"emails"} |-> ListKind(failed)])

\* validate() of a struct whose field "registration" is a #[validate]
\* Registration: a value object nested two levels deep
Signup_validate(o) ==
    ValidationResult(StructErrors(
        [registration |-> Registration_validate(o.registration)]))

\* object.validate() for the T: Validate handed to ApplicationError::validate
Validate(o) ==
    CASE o.type = "Email" -> Email_validate(o.value)
      [] o.type = "Password" -> Password_validate(o.value)
      [] o.type = "MyInput" -> MyInput_validate(o)
      [] o.type = "Registration" -> Registration_validate(o)
      [] o.type = "Recipients" -> Recipients_validate(o)
      [] o.type = "Signup" -> Signup_validate(o)

(***************************************************************************)
(* ApplicationError::validate                                              *)
(***************************************************************************)
\* a set as a sequence, in one order (a HashMap iterates in no fixed order)
RECURSIVE SetToSeq(_)
SetToSeq(S) ==
    IF S = {} THEN <<>>
    ELSE LET x == CHOOSE y \in S : TRUE IN <<x>> \o SetToSeq(S \ {x})

RECURSIVE Join(_, _)
\* Vec<String>::join(sep)
Join(strs, sep) ==
    IF strs = <<>> THEN <<>>
    ELSE IF Len(strs) = 1 THEN strs[1]
    ELSE strs[1] \o <<sep>> \o Join(Tail(strs), sep)

\* {:?} of a value
Debug(v) == [debug |-> v]

\* fn validation_errs_to_str_vec(ve: &ValidationErrors) -> Vec<String>:
\* field_errors() holds the Field-kind entries of ve only
validation_errs_to_str_vec(ve) ==
    LET fields == SetToSeq({f \in DOMAIN ve : ve[f].kind = "Field"})
    IN  [i \in 1..Len(fields) |->
            <<"{\"", fields[i], "\": errors: ">>
            \o Join([j \in 1..Len(ve[fields[i]].errs) |->
                        <<ve[fields[i]].errs[j].code, ": ",
                          Debug(ve[fields[i]].errs[j].params)>>], ", ")
            \o <<"}">>]

\* the match on ValidationErrorsKind inside ApplicationError::validate
render_error_kind(k) ==
    CASE k.kind = "Struct" -> validation_errs_to_str_vec(k.errs)
      [] k.kind = "Field" ->
            [i \in 1..Len(k.errs) |->
                <<"{\"", k.errs[i].code, "\": ", Debug(k.errs[i].params), "}">>]
      [] k.kind = "List" ->
            [i \in 1..Len(k.errs) |->
                <<k.errs[i][1], ": ",
                  Debug(Join(validation_errs_to_str_vec(k.errs[i][2]), " | "))>>]

\* faulty variant: an error even when the object is valid
ApplicationError_validate_never_none(o) ==
    LET r == Validate(o)
        errors == IF r.tag = "Ok" THEN <<>>
                  ELSE [f \in DOMAIN r.errors |-> render_error_kind(r.errors[f])]
    IN  Some(ApplicationError("ValidationError", 400, "invalid_input",
                              "Please check your input", Some(errors)))

\* faulty variant: only Field-kind entries are kept
ApplicationError_validate_field_kinds_only(o) ==
    LET r == Validate(o)
    IN  IF r.tag = "Ok" THEN None
        ELSE LET errors == [f \in {g \in DOMAIN r.errors : r.errors[g].kind = "Field"} |->
                               render_error_kind(r.errors[f])]
             IN  Some(ApplicationError("ValidationError", 400, "invalid_input",
                                       "Please check your input", Some(errors)))

\* ApplicationError::validate(object)
ApplicationError_validate(o) ==
    LET r == Validate(o)
    IN  IF r.tag = "Ok" THEN None
        ELSE LET errors == [f \in DOMAIN r.errors |-> render_error_kind(r.errors[f])]
             IN  Some(ApplicationError("ValidationError", 400, "invalid_input",
                                       "Please check your input", Some(errors)))

(***************************************************************************)
(* Serialization of an ApplicationError: #[derive(Serialize)] walks the    *)
(* struct's fields in declaration order and honours the serde attributes;  *)
(* the JSON object is the sequence of its <<key, value>> members.          *)
(***************************************************************************)
\* the fields of struct ApplicationError with their serde attribute
ApplicationErrorFields ==
    << [name |-> "status",      skip |-> "always"],
       [name |-> "code",        skip |-> "always"],
       [name |-> "error",       skip |-> "never"],
       [name |-> "description", skip |-> "never"],
       [name |-> "fields",      skip |-> "if_none"] >>

\* faulty variant: no skip_serializing_if, a None is written as null
SkipsField_null_fields(e, f) == f.skip = "always"

\* whether the derive leaves field f of e out
SkipsField(e, f) ==
    \/ f.skip = "always"
    \/ f.skip = "if_none" /\ e[f.name].tag = "None"

\* the JSON value of field f of e (an Option that is Some serializes as its
\* content, None as null)
JsonValue(e, f) ==
    IF f.skip = "if_none"
    THEN IF e[f.name].tag = "Some" THEN e[f.name].val ELSE "null"
    ELSE e[f.name]

RECURSIVE SerializeFields(_, _)
\* the members for the first n fields of the struct
SerializeFields(e, n) ==
    IF n = 0 THEN <<>>
    ELSE SerializeFields(e, n - 1) \o
         (IF SkipsField(e, ApplicationErrorFields[n]) THEN <<>>
          ELSE << <<ApplicationErrorFields[n].name,
                    JsonValue(e, ApplicationErrorFields[n])>> >>)

\* serde_json::to_string(&self) of an ApplicationError
ApplicationError_serialize(e) == SerializeFields(e, Len(ApplicationErrorFields))

\* impl Display for ApplicationError: write!(f, "{}", to_string(&self).unwrap())
ApplicationError_to_string(e) == ApplicationError_serialize(e)

(***************************************************************************)
(* Inputs of the password specification                                    *)
(***************************************************************************)
SeqsUpTo(S, n) == UNION {[1..k -> S] : k \in 0..n}

Repeat(c, n) == [i \in 1..n |-> c]

PasswordTexts ==
    {core \o Repeat(c, n) : core \in SeqsUpTo(Chars, MaxCore),
                            c \in PadChars, n \in 0..MaxPad}

NoCall == [op |-> "none"]
NoRet == [tag |-> "none"]
NoDerivation == [tag |-> "None"]
NoObject == [type |-> "none"]

(***************************************************************************)
(* SpecPassword: a Password is built from any text and then validated.     *)
(***************************************************************************)
InitPassword ==
    /\ password \in {Password_from(s) : s \in PasswordTexts}
    /\ hash = <<>>
    /\ derived = NoDerivation
    /\ object = NoObject
    /\ call = NoCall
    /\ ret = NoRet

\* my_password.validate()
PasswordValidate ==
    /\ call' = [op |-> "Password::validate"]
    /\ ret' = Password_validate(password)
    /\ UNCHANGED <<password, hash, derived, object>>

NextPassword == PasswordValidate

SpecPassword == InitPassword /\ [][NextPassword]_vars

(***************************************************************************)
(* Properties of SpecPassword                                              *)
(***************************************************************************)
\* the four character classes as the specification words them (ASCII)
AsciiLower(c) == c \in 97..122
AsciiUpper(c) == c \in 65..90
AsciiDigit(c) == c \in 48..57
AsciiSpecial(c) == c \in 0..127 /\ ~AsciiLower(c) /\ ~AsciiUpper(c) /\ ~AsciiDigit(c)

Contains(s, P(_)) == \E i \in 1..Len(s) : P(s[i])

AllFourClasses(s) ==
    /\ Contains(s, AsciiLower)
    /\ Contains(s, AsciiUpper)
    /\ Contains(s, AsciiDigit)
    /\ Contains(s, AsciiSpecial)

Validated == call.op = "Password::validate"

\* C1: Password::from(s).validate() succeeds if and only if 8 <= len(s) <= 18
\* and s holds a lowercase letter, an uppercase letter, a digit and a special
\* character; both length bounds are inclusive, and the empty string,
\* letters-only strings and strings of length 7 or 19 are rejected.
C1_ValidIffLengthAndClasses ==
    Validated =>
        /\ ret.tag = "Ok" <=>
              (Len(password) >= 8 /\ Len(password) <= 18 /\ AllFourClasses(password))
        /\ Len(password) \in {0, 7, 19} => ret.tag = "Err"
        /\ (\A i \in 1..Len(password) : AsciiLower(password[i]) \/ AsciiUpper(password[i]))
              => ret.tag = "Err"
        /\ (Len(password) \in {8, 18} /\ AllFourClasses(password)) => ret.tag = "Ok"

\* a password of exactly 18 characters with all four classes was accepted
C1_Witness ==
    /\ Validated
    /\ Len(password) = 18
    /\ AllFourClasses(password)
    /\ ret.tag = "Ok"

NonAscii(c) == c > 127

\* the errors validate() reported on the field "value"
ValueErrorCodes ==
    IF ret.tag = "Err"
    THEN {ret.errors["value"].errs[i].code : i \in 1..Len(ret.errors["value"].errs)}
    ELSE {}

\* C2: a non-ASCII character sets none of the four class flags (the flags of a
\* text are those of its ASCII characters alone), only an ASCII character that
\* is neither letter nor digit sets has_special, and a password whose only
\* non-alphanumeric characters are non-ASCII is invalid whatever its length.
C2_NonAsciiSetsNoFlag ==
    Validated =>
        LET f == validate_pass_flags(password, Len(password))
            ascii == SelectSeq(password, is_ascii)
        IN  /\ f = validate_pass_flags(ascii, Len(ascii))
            /\ f.has_lower <=> Contains(password, AsciiLower)
            /\ f.has_upper <=> Contains(password, AsciiUpper)
            /\ f.has_number <=> Contains(password, AsciiDigit)
            /\ f.has_special <=> Contains(password, AsciiSpecial)
            /\ ~Contains(password, AsciiSpecial) =>
                  (ret.tag = "Err" /\ "Invalid Password" \in ValueErrorCodes)

\* a rejected password of valid length with ASCII lower, upper and digit whose
\* only non-alphanumeric character is the non-ASCII U+20AC
C2_Witness ==
    /\ Validated
    /\ Len(password) \in 8..18
    /\ Contains(password, AsciiLower)
    /\ Contains(password, AsciiUpper)
    /\ Contains(password, AsciiDigit)
    /\ Contains(password, LAMBDA c : c = 8364)
    /\ ~Contains(password, AsciiSpecial)
    /\ ret.tag = "Err"

(***************************************************************************)
(* SpecHash: a caller holds a Password and a Hash; it builds hashes (empty,*)
(* from a stored string, from a password and a key), takes new passwords   *)
(* and verifies the password against the hash.                             *)
(***************************************************************************)
\* "Aasolole123!", "1234qweR!", "MypassworD1234!" (strong); "mypass", "" (weak)
HashPasswords ==
    { <<65, 97, 115, 111, 108, 111, 108, 101, 49, 50, 51, 33>>,
      <<49, 50, 51, 52, 113, 119, 101, 82, 33>>,
      <<77, 121, 112, 97, 115, 115, 119, 111, 114, 68, 49, 50, 51, 52, 33>>,
      <<109, 121, 112, 97, 115, 115>>,
      <<>> }

\* keys handed to from_password: a whole "$6$" hash string (as the test's
\* key), a bare "$6$" salt, an MD5-crypt setup, a plain word, the empty string
Keys ==
    { <<"$6$", "G/gkPn17kHYo0gTF", "$", Digest("G/gkPn17kHYo0gTF", <<>>)>>,
      <<"$6$", "saltsalt">>,
      <<"$1$", "saltsalt">>,
      <<"secret">>,
      <<>> }

\* hash strings read back from storage by Hash::from
StoredHashes ==
    { <<"expected_hash">>,
      <<"123456">>,
      <<"$6$", "saltsalt", "$",
        Digest("saltsalt", <<49, 50, 51, 52, 113, 119, 101, 82, 33>>)>>,
      <<>> }

InitHash ==
    /\ password \in {Password_from(s) : s \in HashPasswords}
    /\ hash = Hash_new
    /\ derived = NoDerivation
    /\ object = NoObject
    /\ call = NoCall
    /\ ret = NoRet

\* Hash::new()
HashNew ==
    /\ hash' = Hash_new
    /\ derived' = NoDerivation
    /\ call' = [op |-> "Hash::new"]
    /\ ret' = NoRet
    /\ UNCHANGED <<password, object>>

\* Hash::from(h)
HashFrom ==
    \E h \in StoredHashes :
        /\ hash' = Hash_from(h)
        /\ derived' = NoDerivation
        /\ call' = [op |-> "Hash::from"]
        /\ ret' = NoRet
        /\ UNCHANGED <<password, object>>

\* Password::from(s): the caller takes another password
PasswordFrom ==
    \E s \in HashPasswords :
        /\ password' = Password_from(s)
        /\ call' = [op |-> "Password::from"]
        /\ ret' = NoRet
        /\ UNCHANGED <<hash, derived, object>>

\* Hash::from_password(key, &password); on Ok the caller keeps the new Hash
HashFromPassword ==
    \E key \in Keys :
        LET r == Hash_from_password(key, password)
        IN  /\ call' = [op |-> "Hash::from_password", key |-> key]
            /\ ret' = r
            /\ IF r.tag = "Ok"
               THEN /\ hash' = r.hash
                    /\ derived' = [tag |-> "Some", key |-> key, password |-> password]
               ELSE UNCHANGED <<hash, derived>>
            /\ UNCHANGED <<password, object>>

\* hash.verify_password(&password)
HashVerifyPassword ==
    /\ call' = [op |-> "Hash::verify_password"]
    /\ ret' = Hash_verify_password(hash, password)
    /\ UNCHANGED <<password, hash, derived, object>>

NextHash ==
    \/ HashNew
    \/ HashFrom
    \/ PasswordFrom
    \/ HashFromPassword
    \/ HashVerifyPassword

SpecHash == InitHash /\ [][NextHash]_vars

(***************************************************************************)
(* Properties of SpecHash                                                  *)
(***************************************************************************)
Verified == call.op = "Hash::verify_password"

Derived == call.op = "Hash::from_password"

IsValidPassword(pw) == Password_validate(pw).tag = "Ok"

\* C3: verify_password returns the empty-hash error if and only if the stored
\* hash string is empty: with an empty hash always Err, never Ok(true) or
\* Ok(false); with a non-empty hash always Ok(b), b being what the hash
\* primitive says, so a non-matching password yields Ok(false), not an error.
C3_EmptyHashErrorIffEmpty ==
    Verified =>
        /\ ret.tag = "Err" <=> hash = <<>>
        /\ hash = <<>> => ret = [tag |-> "Err", err |-> "Hash is empty"]
        /\ hash # <<>> =>
              /\ ret.tag = "Ok"
              /\ ret.val = sha512_crypt_verify(password, hash)
              /\ (derived.tag = "Some" /\ derived.password # password) => ret.val = FALSE

\* a strong password was verified against an empty hash and got the error
C3_Witness ==
    /\ Verified
    /\ hash = <<>>
    /\ IsValidPassword(password)
    /\ ret.tag = "Err"

\* C4: for a valid password p and a key k, verifying p against the hash
\* from_password(k, p) derived returns true, and verifying another valid
\* password p2 # p against that hash returns false.
C4_HashRoundTrip ==
    (Verified /\ derived.tag = "Some"
        /\ IsValidPassword(derived.password) /\ IsValidPassword(password)) =>
        /\ hash = Hash_from_password(derived.key, derived.password).hash
        /\ ret = [tag |-> "Ok", val |-> (password = derived.password)]

\* another valid password was verified against a derived hash: Ok(false)
C4_Witness ==
    /\ Verified
    /\ derived.tag = "Some"
    /\ IsValidPassword(derived.password)
    /\ IsValidPassword(password)
    /\ password # derived.password
    /\ ret = [tag |-> "Ok", val |-> FALSE]

\* C5: from_password fails only when the hash primitive fails, the error then
\* is the default internal_server_error (InternalServerError, 500,
\* "internal_server_error", fields None), and a password that fails
\* Password.validate is hashed whenever the primitive succeeds.
C5_FromPasswordFailsOnlyOnPrimitive ==
    Derived =>
        LET prim == sha512_crypt_hash_with(call.key, password)
        IN  /\ ret.tag = "Err" <=> prim.tag = "Err"
            /\ ret.tag = "Err" =>
                  /\ ret.err.status = "InternalServerError"
                  /\ ret.err.code = 500
                  /\ ret.err.error = "internal_server_error"
                  /\ ret.err.fields = [tag |-> "None"]
            /\ (~IsValidPassword(password) /\ prim.tag = "Ok") =>
                  (ret.tag = "Ok" /\ ret.hash = prim.val /\ hash = prim.val)

\* a weak password was hashed successfully
C5_Witness ==
    /\ Derived
    /\ ~IsValidPassword(password)
    /\ ret.tag = "Ok"

\* from_password failed on a key the primitive rejects
C5_WitnessFailure ==
    /\ Derived
    /\ IsValidPassword(password)
    /\ ret.tag = "Err"

(***************************************************************************)
(* SpecError: a caller builds errors with the six constructors, in any of  *)
(* their call shapes, and hands objects to ApplicationError::validate.     *)
(***************************************************************************)
\* custom descriptions and error tags (those of the module's documentation)
Descriptions ==
    { "Kami mengalami masalah dalam memproses permintaan anda",
      "Sesi login anda sudah tidak berlaku" }

Tags == { "expired_token", "maintenance" }

\* no argument; a description; a description and an error tag
CallShapes ==
    {<<>>} \cup {<<d>> : d \in Descriptions}
           \cup {<<d, e>> : d \in Descriptions, e \in Tags}

\* "12345678", "1234567812345678", and 33 characters
IdTexts ==
    { <<49, 50, 51, 52, 53, 54, 55, 56>>,
      <<49, 50, 51, 52, 53, 54, 55, 56, 49, 50, 51, 52, 53, 54, 55, 56>>,
      Repeat(49, 33) }

\* "digitalsekrtii.co", "harun@digitalsekrtii.co", "harunasolole",
\* "harun@digitalsekuriti.id", "harun@localhost"
EmailTexts ==
    { <<100, 105, 103, 105, 116, 97, 108, 115, 101, 107, 114, 116, 105, 105, 46, 99, 111>>,
      <<104, 97, 114, 117, 110, 64, 100, 105, 103, 105, 116, 97, 108, 115, 101, 107,
        114, 116, 105, 105, 46, 99, 111>>,
      <<104, 97, 114, 117, 110, 97, 115, 111, 108, 111, 108, 101>>,
      <<104, 97, 114, 117, 110, 64, 100, 105, 103, 105, 116, 97, 108, 115, 101, 107,
        117, 114, 105, 116, 105, 46, 105, 100>>,
      <<104, 97, 114, 117, 110, 64, 108, 111, 99, 97, 108, 104, 111, 115, 116>> }

\* "harun", "har"
NameTexts == { <<104, 97, 114, 117, 110>>, <<104, 97, 114>> }

Ages == {16, 17, 18, 64, 65}

Passwords == {[type |-> "Password", value |-> Password_from(s)] : s \in HashPasswords}

Emails == {Email_from(s) : s \in EmailTexts}

MyInputs ==
    {[type |-> "MyInput", id |-> i, email |-> e, name |-> n, age |-> a] :
        i \in IdTexts, e \in EmailTexts, n \in NameTexts, a \in Ages}

Registrations ==
    {[type |-> "Registration", email |-> e, password |-> pw] :
        e \in Emails, pw \in Passwords}

MaxRecipients == 2

Recipients ==
    {[type |-> "Recipients", emails |-> es] : es \in SeqsUpTo(Emails, MaxRecipients)}

Signups == {[type |-> "Signup", registration |-> r] : r \in Registrations}

Objects ==
    Emails \cup Passwords \cup MyInputs \cup Registrations \cup Recipients \cup Signups

InitError ==
    /\ password = <<>>
    /\ hash = Hash_new
    /\ derived = NoDerivation
    /\ object = NoObject
    /\ call = NoCall
    /\ ret = NoRet

\* internal_server_error!(), internal_server_error!(description), internal_server_error!(description, error)
InternalServerError ==
    \E args \in CallShapes :
        /\ call' = [op |-> "internal_server_error", args |-> args]
        /\ ret' = [tag |-> "Error", val |-> internal_server_error(args)]
        /\ object' = NoObject
        /\ UNCHANGED <<password, hash, derived>>

\* unauthorized_error!(), unauthorized_error!(description), unauthorized_error!(description, error)
UnauthorizedError ==
    \E args \in CallShapes :
        /\ call' = [op |-> "unauthorized_error", args |-> args]
        /\ ret' = [tag |-> "Error", val |-> unauthorized_error(args)]
        /\ object' = NoObject
        /\ UNCHANGED <<password, hash, derived>>

\* forbidden_error!(), forbidden_error!(description), forbidden_error!(description, error)
ForbiddenError ==
    \E args \in CallShapes :
        /\ call' = [op |-> "forbidden_error", args |-> args]
        /\ ret' = [tag |-> "Error", val |-> forbidden_error(args)]
        /\ object' = NoObject
        /\ UNCHANGED <<password, hash, derived>>

\* bad_request_error!(), bad_request_error!(description), bad_request_error!(description, error)
BadRequestError ==
    \E args \in CallShapes :
        /\ call' = [op |-> "bad_request_error", args |-> args]
        /\ ret' = [tag |-> "Error", val |-> bad_request_error(args)]
        /\ object' = NoObject
        /\ UNCHANGED <<password, hash, derived>>

\* not_found_error!(), not_found_error!(description), not_found_error!(description, error)
NotFoundError ==
    \E args \in CallShapes :
        /\ call' = [op |-> "not_found_error", args |-> args]
        /\ ret' = [tag |-> "Error", val |-> not_found_error(args)]
        /\ object' = NoObject
        /\ UNCHANGED <<password, hash, derived>>

\* too_many_request_error!(), too_many_request_error!(description), too_many_request_error!(description, error)
TooManyRequestError ==
    \E args \in CallShapes :
        /\ call' = [op |-> "too_many_request_error", args |-> args]
        /\ ret' = [tag |-> "Error", val |-> too_many_request_error(args)]
        /\ object' = NoObject
        /\ UNCHANGED <<password, hash, derived>>

\* ApplicationError::validate(o)
ApplicationErrorValidate ==
    \E o \in Objects :
        /\ object' = o
        /\ call' = [op |-> "ApplicationError::validate", args |-> <<>>]
        /\ ret' = ApplicationError_validate(o)
        /\ UNCHANGED <<password, hash, derived>>

\* error.to_string(): the error the last call returned is put on the wire
ApplicationErrorToString ==
    /\ ret.tag \in {"Error", "Some"}
    /\ object' = ret.val
    /\ call' = [op |-> "ApplicationError::to_string", args |-> <<>>]
    /\ ret' = [tag |-> "String", val |-> ApplicationError_to_string(ret.val)]
    /\ UNCHANGED <<password, hash, derived>>

NextError ==
    \/ InternalServerError
    \/ UnauthorizedError
    \/ ForbiddenError
    \/ BadRequestError
    \/ NotFoundError
    \/ TooManyRequestError
    \/ ApplicationErrorValidate
    \/ ApplicationErrorToString

SpecError == InitError /\ [][NextError]_vars

(***************************************************************************)
(* Properties of SpecError                                                 *)
(***************************************************************************)
Constructors ==
    {"internal_server_error", "unauthorized_error", "forbidden_error",
     "bad_request_error", "not_found_error", "too_many_request_error"}

Constructed == call.op \in Constructors

\* the table of the six fixed errors: status, code and error tag
ErrorTable ==
    [internal_server_error |->
        [status |-> "InternalServerError", code |-> 500, error |-> "internal_server_error"],
     unauthorized_error |->
        [status |-> "UnauthorizedError", code |-> 401, error |-> "unauthorized"],
     forbidden_error |->
        [status |-> "ForbiddenError", code |-> 403, error |-> "forbidden"],
     bad_request_error |->
        [status |-> "BadRequestError", code |-> 400, error |-> "bad_request"],
     not_found_error |->
        [status |-> "NotFoundError", code |-> 400, error |-> "not_found"],
     too_many_request_error |->
        [status |-> "TooManyRequestError", code |-> 429, error |-> "too_many_request"]]

\* C6: each of the six constructors, called with no arguments, yields exactly
\* the status, code and error tag of its table row (not_found_error: 400).
C6_NoArgumentYieldsTableRow ==
    (Constructed /\ call.args = <<>>) =>
        /\ ret.val.status = ErrorTable[call.op].status
        /\ ret.val.code = ErrorTable[call.op].code
        /\ ret.val.error = ErrorTable[call.op].error

\* not_found_error!() was called
C6_Witness ==
    /\ call.op = "not_found_error"
    /\ call.args = <<>>
    /\ ret.val.code = 400

\* the value of constructor `name` called with no arguments
NoArgument(name) ==
    CASE name = "internal_server_error" -> internal_server_error(<<>>)
      [] name = "unauthorized_error" -> unauthorized_error(<<>>)
      [] name = "forbidden_error" -> forbidden_error(<<>>)
      [] name = "bad_request_error" -> bad_request_error(<<>>)
      [] name = "not_found_error" -> not_found_error(<<>>)
      [] name = "too_many_request_error" -> too_many_request_error(<<>>)

AggregatorCalled == call.op = "ApplicationError::validate"

\* the ApplicationError values the last call produced
ProducedErrors ==
    IF Constructed THEN {ret.val}
    ELSE IF AggregatorCalled /\ ret.tag = "Some" THEN {ret.val}
    ELSE {}

\* C8: for every ApplicationError a constructor of the module produces (the
\* six fixed-error constructors in any call shape, ApplicationError::validate),
\* fields is Some if and only if status is ValidationError.
C8_FieldsIffValidationError ==
    \A e \in ProducedErrors :
        e.fields.tag = "Some" <=> e.status = "ValidationError"

\* ApplicationError::validate produced a validation error with fields
C8_Witness ==
    /\ AggregatorCalled
    /\ ret.tag = "Some"
    /\ ret.val.status = "ValidationError"
    /\ ret.val.fields.tag = "Some"

\* the fields of an object that fail their rule, read off the rules
FailingFields(o) ==
    CASE o.type = "Email" ->
            {f \in {"value"} : ~validate_email(o.value)}
      [] o.type = "Password" ->
            {f \in {"value"} : ~(Len(o.value) \in 8..18 /\ AllFourClasses(o.value))}
      [] o.type = "MyInput" ->
            {f \in {"id"} : ~(Len(o.id) \in 16..32)}
            \cup {f \in {"email"} : ~validate_email(o.email)}
            \cup {f \in {"name"} : ~(Len(o.name) \in 5..64)}
            \cup {f \in {"age"} : ~(o.age \in 17..64)}
      [] o.type = "Registration" ->
            {f \in {"email"} : ~validate_email(o.email.value)}
            \cup {f \in {"password"} :
                    ~(Len(o.password.value) \in 8..18 /\ AllFourClasses(o.password.value))}
      [] o.type = "Recipients" ->
            {f \in {"emails"} :
                \E i \in 1..Len(o.emails) : ~validate_email(o.emails[i].value)}
      [] o.type = "Signup" ->
            {f \in {"registration"} :
                \/ ~validate_email(o.registration.email.value)
                \/ ~(Len(o.registration.password.value) \in 8..18
                      /\ AllFourClasses(o.registration.password.value))}

\* C9: ApplicationError::validate(object) returns None if and only if the
\* object validates successfully; otherwise Some(error) with status
\* ValidationError, code 400, error "invalid_input", description
\* "Please check your input" and fields Some(mapping).
C9_NoneIffObjectValid ==
    AggregatorCalled =>
        /\ ret.tag \in {"None", "Some"}
        /\ ret.tag = "None" <=> FailingFields(object) = {}
        /\ ret.tag = "None" <=> Validate(object).tag = "Ok"
        /\ ret.tag = "Some" =>
              /\ ret.val.status = "ValidationError"
              /\ ret.val.code = 400
              /\ ret.val.error = "invalid_input"
              /\ ret.val.description = "Please check your input"
              /\ ret.val.fields.tag = "Some"

\* a fully conforming MyInput was validated: no error
C9_Witness ==
    /\ AggregatorCalled
    /\ object.type = "MyInput"
    /\ FailingFields(object) = {}
    /\ ret.tag = "None"

\* C10: when ApplicationError::validate returns an error, the key set of its
\* fields mapping is exactly the set of the object's fields that failed:
\* every failing field is a key, no passing field is one (failing on id,
\* email and age and passing on name: exactly {id, email, age}).
C10_KeysAreExactlyFailingFields ==
    (AggregatorCalled /\ ret.tag = "Some") =>
        /\ DOMAIN ret.val.fields.val = FailingFields(object)
        /\ DOMAIN ret.val.fields.val # {}

\* the object of test_validation_error: id, email and age fail, name passes
C10_Witness ==
    /\ AggregatorCalled
    /\ object.type = "MyInput"
    /\ FailingFields(object) = {"id", "email", "age"}
    /\ ret.tag = "Some"
    /\ DOMAIN ret.val.fields.val = {"id", "email", "age"}

Serialized == call.op = "ApplicationError::to_string"

\* the keys of the JSON object on the wire, in order
WireKeys == [i \in 1..Len(ret.val) |-> ret.val[i][1]]

\* C11: a serialized ApplicationError never contains status or code: a
\* non-validation error serializes to exactly the keys error and description,
\* in that order, a validation error to error, description and fields; fields
\* is on the wire if and only if it is Some on the value.
C11_WireHasNoStatusNorCode ==
    Serialized =>
        /\ \A i \in 1..Len(WireKeys) : WireKeys[i] \notin {"status", "code"}
        /\ object.status # "ValidationError" => WireKeys = <<"error", "description">>
        /\ object.status = "ValidationError" =>
              WireKeys = <<"error", "description", "fields">>
        /\ (\E i \in 1..Len(WireKeys) : WireKeys[i] = "fields")
              <=> object.fields.tag = "Some"
        /\ ret.val[1][2] = object.error
        /\ ret.val[2][2] = object.description
        /\ object.fields.tag = "Some" => ret.val[3][2] = object.fields.val

\* a validation error was serialized, with its fields
C11_Witness ==
    /\ Serialized
    /\ object.status = "ValidationError"
    /\ WireKeys = <<"error", "description", "fields">>
    /\ DOMAIN ret.val[3][2] # {}

(***************************************************************************)
(* SpecEmail: an Email is built from any text and then validated.          *)
(***************************************************************************)
\* the longest free text an Email is built from
MaxEmailLen == 5

\* 'h', '1', '@', '.', '-'
EmailChars == {104, 49, 64, 46, 45}

\* "harun@[::1]", "harun@[127.0.0.1]", "harun@[localhost]"
LiteralEmailTexts ==
    { <<104, 97, 114, 117, 110, 64, 91, 58, 58, 49, 93>>,
      <<104, 97, 114, 117, 110, 64, 91, 49, 50, 55, 46, 48, 46, 48, 46, 49, 93>>,
      <<104, 97, 114, 117, 110, 64, 91, 108, 111, 99, 97, 108, 104, 111, 115, 116, 93>> }

EmailInputs == SeqsUpTo(EmailChars, MaxEmailLen) \cup EmailTexts \cup LiteralEmailTexts

InitEmail ==
    /\ password = <<>>
    /\ hash = Hash_new
    /\ derived = NoDerivation
    /\ object \in {Email_from(s) : s \in EmailInputs}
    /\ call = NoCall
    /\ ret = NoRet

\* my_email.validate()
EmailValidate ==
    /\ call' = [op |-> "Email::validate"]
    /\ ret' = Email_validate(object.value)
    /\ UNCHANGED <<password, hash, derived, object>>

NextEmail == EmailValidate

SpecEmail == InitEmail /\ [][NextEmail]_vars

(***************************************************************************)
(* Properties of SpecEmail                                                 *)
(***************************************************************************)
EmailValidated == call.op = "Email::validate"

HasAt(s) == \E i \in 1..Len(s) : s[i] = 64

\* the text after the last "@"
DomainPart(s) ==
    LET at == CHOOSE i \in 1..Len(s) : s[i] = 64 /\ \A j \in (i + 1)..Len(s) : s[j] # 64
    IN  SubSeq(s, at + 1, Len(s))

HasDot(s) == \E i \in 1..Len(s) : s[i] = 46

HarunAtDigitalsekuriti ==
    <<104, 97, 114, 117, 110, 64, 100, 105, 103, 105, 116, 97, 108, 115, 101, 107,
      117, 114, 105, 116, 105, 46, 105, 100>>

Harunasolole == <<104, 97, 114, 117, 110, 97, 115, 111, 108, 111, 108, 101>>

RECURSIVE FieldEntryCount(_)
RECURSIVE FieldEntryCountOver(_, _)
RECURSIVE FieldEntryCountList(_, _)

\* the number of Field failures in a failure tree, at any depth: a recursive
\* flattening renders one string for each
FieldEntryCount(tree) == FieldEntryCountOver(tree, SetToSeq(DOMAIN tree))

FieldEntryCountOver(tree, fs) ==
    IF fs = <<>> THEN 0
    ELSE (CASE tree[Head(fs)].kind = "Field" -> 1
            [] tree[Head(fs)].kind = "Struct" -> FieldEntryCount(tree[Head(fs)].errs)
            [] tree[Head(fs)].kind = "List" ->
                  FieldEntryCountList(tree[Head(fs)].errs, Len(tree[Head(fs)].errs)))
         + FieldEntryCountOver(tree, Tail(fs))

FieldEntryCountList(elems, n) ==
    IF n = 0 THEN 0
    ELSE FieldEntryCountList(elems, n - 1) + FieldEntryCount(elems[n][2])

\* the failure tree of the object handed to ApplicationError::validate
ObjectErrors == Validate(object).errors

\* C13: for a field whose failure is a Struct failure, the field's list in
\* the fields mapping is the recursive flattening of the nested object's
\* whole failure tree: every leaf failure at any depth, also under a further
\* nested struct or list, is rendered, and the list is never empty.
C13_StructFailureFlattenedRecursively ==
    (AggregatorCalled /\ ret.tag = "Some") =>
        \A f \in DOMAIN ObjectErrors :
            ObjectErrors[f].kind = "Struct" =>
                /\ ret.val.fields.val[f] # <<>>
                /\ Len(ret.val.fields.val[f]) = FieldEntryCount(ObjectErrors[f].errs)

====
